---- MODULE Spec2Model ----
(***************************************************************************)
(* Model of caffe2/python/layers/feature_sparse_to_dense.py:               *)
(* the FeatureSparseToDense layer.  The state is one layer object (its     *)
(* input_specs, input_record, output_schema, zero, zero_range), the blob   *)
(* names registered in model.net, and the nets that add_ops is called on.  *)
(* The operations are the constructor, add_ops and get_metadata.           *)
(***************************************************************************)
EXTENDS Integers, Sequences, FiniteSets, TLC

VARIABLES
    input_specs,      \* self.input_specs: sequence of (field, feature_specs)
    input_record,     \* self.input_record: field -> path -> blob name
    registered,       \* blob names already taken in model.net
    status,           \* "new" | "constructed" | "raised"
    raised,           \* "" | "AssertionError" | "TypeError"
    output_schema,    \* self.output_schema: [set, fields]
    zero,             \* self.zero       (<<>> until assigned)
    zero_range,       \* self.zero_range (<<>> until assigned)
    nets,             \* net id -> [ops, registered]
    calls,            \* net id -> number of add_ops calls made on that net
    metadata_returns  \* the values returned by the calls of get_metadata so far

vars == <<input_specs, input_record, registered, status, raised, output_schema,
          zero, zero_range, nets, calls, metadata_returns>>

(* ------------------------------ bounds -------------------------------- *)

MaxGroups == 2

MaxLen == 2

MaxCalls == 1

MaxMetadataCalls == 2

(* ------------------------------ inputs -------------------------------- *)

KnownTags == {"FLOAT", "ID_LIST", "ID_SCORE_LIST"}

\* One tag outside the three the constructor dispatches on.
FeatureTypes == KnownTags \cup {"EMBEDDING"}

AllFields == <<"a", "b", "c", "d">>

\* The field names of k groups: distinct (they are keys of the input record and
\* of the output Struct), in either order.
FieldOrders(k) ==
    { [i \in 1..k |-> AllFields[i]], [i \in 1..k |-> AllFields[k + 1 - i]] }

FeatureNames(len) == [i \in 1..len |-> "name" \o ToString(i)]

\* An unsorted list of distinct ids: 8, 5, 2, 9, ...
FeatureIds(len) == [i \in 1..len |-> ((i * 7) % 10) + 1]

\* The lengths of the ids lists tried: none, one, the longest.
IdLens == {0, 1, MaxLen}

\* The names list is as long as the ids list, or one longer, or (for the
\* longest ids list) empty.
FeatureSpecs ==
    { [feature_type |-> t, feature_names |-> FeatureNames(ln), feature_ids |-> FeatureIds(li)] :
        t \in FeatureTypes,
        <<ln, li>> \in { <<l, l>> : l \in IdLens } \cup
                       { <<(l + 1) % (MaxLen + 1), l>> : l \in IdLens } }

\* input_specs of k groups with the field names fo and the feature specs fs.
InputSpecs(k, fo, fs) == [i \in 1..k |-> [field |-> fo[i], feature_specs |-> fs[i]]]

LayerName == "feature_sparse_to_dense"

ScopedName(scope, name) == scope \o "/" \o name

\* The blobs of record[field], by the accessor path that add_ops uses.
Paths(t) ==
    IF t = "ID_LIST" THEN {"keys", "lengths", "values:lengths", "values:items"}
    ELSE IF t = "ID_SCORE_LIST"
         THEN {"keys", "lengths", "values:lengths", "values:keys", "values:values"}
    ELSE {"keys", "lengths", "values"}

\* Two ways the caller may have named the input blobs: after the field and the
\* path, or (style "clash") with the very names the layer asks for its outputs.
InputStyles == {"plain", "clash"}

InputBlob(style, field, path) ==
    IF style = "plain" THEN field \o ":" \o path
    ELSE IF path = "values" THEN ScopedName(LayerName, field \o "_output")
    ELSE IF path = "values:lengths" THEN ScopedName(LayerName, field \o "_ranges")
    ELSE IF path = "values:items" THEN ScopedName(LayerName, field \o "_values")
    ELSE IF path = "values:keys" THEN ScopedName(LayerName, field \o "_ids")
    ELSE IF path = "values:values" THEN ScopedName(LayerName, field \o "_scores")
    ELSE field \o ":" \o path

InputRecord(specs, style) ==
    [f \in {specs[i].field : i \in 1..Len(specs)} |->
        LET t == (CHOOSE i \in 1..Len(specs) : specs[i].field = f)
            ty == specs[t].feature_specs.feature_type
        IN [p \in Paths(ty) |-> InputBlob(style, f, p)]]

InputBlobs(rec) == UNION { {rec[f][p] : p \in DOMAIN rec[f]} : f \in DOMAIN rec }

global_constants == [ZERO |-> "ZERO", ZERO_RANGE |-> "ZERO_RANGE"]

NetIds == {"train_net", "predict_net"}

\* The scope in force when add_ops runs; the caller sets it.
CurrentNameScope == LayerName

\* A net handed to add_ops may already hold operators of other layers.
InitialNet(n) ==
    IF n = "train_net" THEN [ops |-> <<>>, registered |-> {}]
    ELSE [ops |-> << [type |-> "LengthsToRanges",
                      inputs |-> <<"other:lengths">>,
                      outputs |-> <<ScopedName(CurrentNameScope, "id_list_ranges")>>,
                      args |-> <<>>] >>,
          registered |-> {ScopedName(CurrentNameScope, "id_list_ranges")}]

(* --------------------------- framework helpers ------------------------ *)

RECURSIVE NextBlobFrom(_, _, _)
NextBlobFrom(prefix, index, used) ==
    LET output_blob == prefix \o "_auto_" \o ToString(index)
    IN IF output_blob \in used THEN NextBlobFrom(prefix, index + 1, used) ELSE output_blob

\* Net.NextBlob: the prefix itself when it is free, else prefix_auto_<k> for the
\* first k that is free.
NextBlob(prefix, used) ==
    IF prefix \in used THEN NextBlobFrom(prefix, 0, used) ELSE prefix

\* ModelLayer.get_next_blob_reference: a new blob of model.net under the layer's scope.
get_next_blob_reference(name, used) == NextBlob(ScopedName(LayerName, name), used)

\* schema.Scalar((dtype, shape), blob); no metadata yet.
Scalar(name, dtype, shape, blob) ==
    [name |-> name, dtype |-> dtype, shape |-> shape, blob |-> blob, metadata |-> <<>>]

(* ------------------------------ __init__ ------------------------------ *)

FloatOutput(field, fs, used) ==
    LET b == get_next_blob_reference(field \o "_output", used)
    IN [field |-> field, kind |-> "Scalar",
        scalars |-> << Scalar("", "float32", <<Len(fs.feature_ids)>>, b) >>]

\* Variant of IdListOutput: 'values' is given the plain scoped name, not a new
\* blob reference.
IdListOutputReusedName(field, fs, used) ==
    LET r == get_next_blob_reference(field \o "_ranges", used)
        v == ScopedName(LayerName, field \o "_values")
    IN [field |-> field, kind |-> "Struct",
        scalars |-> << Scalar("ranges", "int32", <<Len(fs.feature_ids), 2>>, r),
                       Scalar("values", "int64", <<>>, v) >>]

IdListOutput(field, fs, used) ==
    LET r == get_next_blob_reference(field \o "_ranges", used)
        v == get_next_blob_reference(field \o "_values", used \cup {r})
    IN [field |-> field, kind |-> "Struct",
        scalars |-> << Scalar("ranges", "int32", <<Len(fs.feature_ids), 2>>, r),
                       Scalar("values", "int64", <<>>, v) >>]

\* Variant of IdScoreListOutput: 'scores' declared with the dtype of 'ids'.
IdScoreListOutputScoresInt(field, fs, used) ==
    LET r == get_next_blob_reference(field \o "_ranges", used)
        i == get_next_blob_reference(field \o "_ids", used \cup {r})
        s == get_next_blob_reference(field \o "_scores", used \cup {r, i})
    IN [field |-> field, kind |-> "Struct",
        scalars |-> << Scalar("ranges", "int32", <<Len(fs.feature_ids), 2>>, r),
                       Scalar("ids", "int64", <<>>, i),
                       Scalar("scores", "int64", <<>>, s) >>]

IdScoreListOutput(field, fs, used) ==
    LET r == get_next_blob_reference(field \o "_ranges", used)
        i == get_next_blob_reference(field \o "_ids", used \cup {r})
        s == get_next_blob_reference(field \o "_scores", used \cup {r, i})
    IN [field |-> field, kind |-> "Struct",
        scalars |-> << Scalar("ranges", "int32", <<Len(fs.feature_ids), 2>>, r),
                       Scalar("ids", "int64", <<>>, i),
                       Scalar("scores", "float32", <<>>, s) >>]

FieldBlobs(out) == {out.scalars[j].blob : j \in 1..Len(out.scalars)}

\* Variants of GroupOutput with a slip in the dispatch.
\* An unknown tag falls into the FLOAT branch instead of raising.
GroupOutputNoReject(field, fs, used) ==
    IF Len(fs.feature_names) # Len(fs.feature_ids)
    THEN [raised |-> "AssertionError", out |-> <<>>]
    ELSE IF fs.feature_type = "ID_LIST"
    THEN [raised |-> "", out |-> <<IdListOutput(field, fs, used)>>]
    ELSE IF fs.feature_type = "ID_SCORE_LIST"
    THEN [raised |-> "", out |-> <<IdScoreListOutput(field, fs, used)>>]
    ELSE [raised |-> "", out |-> <<FloatOutput(field, fs, used)>>]

\* The type tag is examined before the lengths are compared.
GroupOutputTagFirst(field, fs, used) ==
    IF fs.feature_type \notin KnownTags
    THEN [raised |-> "TypeError", out |-> <<>>]
    ELSE IF Len(fs.feature_names) # Len(fs.feature_ids)
    THEN [raised |-> "AssertionError", out |-> <<>>]
    ELSE IF fs.feature_type = "FLOAT"
    THEN [raised |-> "", out |-> <<FloatOutput(field, fs, used)>>]
    ELSE IF fs.feature_type = "ID_LIST"
    THEN [raised |-> "", out |-> <<IdListOutput(field, fs, used)>>]
    ELSE [raised |-> "", out |-> <<IdScoreListOutput(field, fs, used)>>]

\* The dispatch knows only the tags of _known_types.
GroupOutputKnownTypesOnly(field, fs, used) ==
    IF Len(fs.feature_names) # Len(fs.feature_ids)
    THEN [raised |-> "AssertionError", out |-> <<>>]
    ELSE IF fs.feature_type = "FLOAT"
    THEN [raised |-> "", out |-> <<FloatOutput(field, fs, used)>>]
    ELSE IF fs.feature_type = "ID_LIST"
    THEN [raised |-> "", out |-> <<IdListOutput(field, fs, used)>>]
    ELSE [raised |-> "TypeError", out |-> <<>>]

\* One pass of the loop body, lines 47-110: the assertion, then the dispatch on
\* the type tag.  out holds the output built, if any.
GroupOutput(field, fs, used) ==
    IF Len(fs.feature_names) # Len(fs.feature_ids)
    THEN [raised |-> "AssertionError", out |-> <<>>]
    ELSE IF fs.feature_type = "FLOAT"
    THEN [raised |-> "", out |-> <<FloatOutput(field, fs, used)>>]
    ELSE IF fs.feature_type = "ID_LIST"
    THEN [raised |-> "", out |-> <<IdListOutput(field, fs, used)>>]
    ELSE IF fs.feature_type = "ID_SCORE_LIST"
    THEN [raised |-> "", out |-> <<IdScoreListOutput(field, fs, used)>>]
    ELSE [raised |-> "TypeError", out |-> <<>>]

\* The loop of lines 46-110 from group i on: the outputs built, the blob names
\* taken, and the exception that ended it ("" when it ran to the end).
RECURSIVE BuildOutputs(_, _, _, _)
BuildOutputs(specs, i, outputs, used) ==
    IF i > Len(specs) THEN [raised |-> "", outputs |-> outputs, registered |-> used]
    ELSE LET g == GroupOutput(specs[i].field, specs[i].feature_specs, used)
         IN IF g.raised # ""
            THEN [raised |-> g.raised, outputs |-> outputs, registered |-> used]
            ELSE BuildOutputs(specs, i + 1, outputs \o g.out,
                              used \cup FieldBlobs(g.out[1]))

\* output_schema[field]
Field(fields, field) == fields[CHOOSE k \in 1..Len(fields) : fields[k].field = field]

\* schema.attach_metadata_to_scalars(output_schema[field], Metadata(feature_specs=fs))
attach_metadata_to_scalars(fields, field, fs) ==
    [k \in 1..Len(fields) |->
        IF fields[k].field = field
        THEN [fields[k] EXCEPT !.scalars =
                 [j \in 1..Len(fields[k].scalars) |->
                     [fields[k].scalars[j] EXCEPT !.metadata = <<fs>>]]]
        ELSE fields[k]]

\* The loop of lines 125-130 from group i on.
RECURSIVE AttachAll(_, _, _)
AttachAll(specs, i, fields) ==
    IF i > Len(specs) THEN fields
    ELSE AttachAll(specs, i + 1,
                   attach_metadata_to_scalars(fields, specs[i].field, specs[i].feature_specs))

Init ==
    /\ \E k \in 0..MaxGroups : \E fo \in FieldOrders(k) : \E fs \in [1..k -> FeatureSpecs] :
          input_specs = InputSpecs(k, fo, fs)
    /\ \E style \in InputStyles : input_record = InputRecord(input_specs, style)
    /\ registered = InputBlobs(input_record) \cup {global_constants.ZERO, global_constants.ZERO_RANGE}
    /\ status = "new"
    /\ raised = ""
    /\ output_schema = [set |-> FALSE, fields |-> <<>>]
    /\ zero = <<>>
    /\ zero_range = <<>>
    /\ nets = [n \in NetIds |-> InitialNet(n)]
    /\ calls = [n \in NetIds |-> 0]
    /\ metadata_returns = <<>>

Construct ==
    /\ status = "new"
    /\ LET r == BuildOutputs(input_specs, 1, <<>>, registered)
       IN /\ registered' = r.registered
          /\ raised' = r.raised
          /\ IF r.raised # ""
             THEN /\ status' = "raised"
                  /\ UNCHANGED <<output_schema, zero, zero_range>>
             ELSE /\ status' = "constructed"
                  /\ output_schema' = [set |-> TRUE,
                                       fields |-> AttachAll(input_specs, 1, r.outputs)]
                  /\ zero' = <<global_constants.ZERO>>
                  /\ zero_range' = <<global_constants.ZERO_RANGE>>
    /\ UNCHANGED <<input_specs, input_record, nets, calls, metadata_returns>>

(* ------------------------------ add_ops ------------------------------- *)

\* net.<type>(inputs, outputs, **args): one operator appended to the net.
Op(type, inputs, outputs, args) ==
    [type |-> type, inputs |-> inputs, outputs |-> outputs, args |-> args]

OpOutputs(ops) == UNION { {ops[k].outputs[j] : j \in 1..Len(ops[k].outputs)} : k \in 1..Len(ops) }

\* net.NextScopedBlob(prefix): a blob neither registered nor defined in the net.
NextScopedBlob(net, prefix) ==
    NextBlob(ScopedName(CurrentNameScope, prefix), net.registered \cup OpOutputs(net.ops))

Emit(net, op) == [net EXCEPT !.ops = Append(net.ops, op)]

\* Variant of FloatOps: the mask is the positions 1..n, not the ids.
FloatOpsIndexMask(net, rec, out, fs, z) ==
    Emit(net, Op("SparseToDenseMask",
                 <<rec["keys"], rec["values"], z, rec["lengths"]>>,
                 <<out.scalars[1].blob>>,
                 << <<"mask", [i \in 1..Len(fs.feature_ids) |-> i]>> >>))

\* Lines 139-150.
FloatOps(net, rec, out, fs, z) ==
    Emit(net, Op("SparseToDenseMask",
                 <<rec["keys"], rec["values"], z, rec["lengths"]>>,
                 <<out.scalars[1].blob>>,
                 << <<"mask", fs.feature_ids>> >>))

\* Variant of IdListOps: the mask operator is emitted before the range
\* computation it reads from.
IdListOpsMaskFirst(net, rec, out, fs, zr) ==
    LET id_list_ranges == NextScopedBlob(net, "id_list_ranges")
        n0 == [net EXCEPT !.registered = net.registered \cup {id_list_ranges}]
        n1 == Emit(n0, Op("SparseToDenseMask",
                          <<rec["keys"], id_list_ranges, zr, rec["lengths"]>>,
                          <<out.scalars[1].blob>>,
                          << <<"mask", fs.feature_ids>> >>))
        n2 == Emit(n1, Op("LengthsToRanges", <<rec["values:lengths"]>>,
                          <<id_list_ranges>>, <<>>))
    IN Emit(n2, Op("Alias", <<rec["values:items"]>>, <<out.scalars[2].blob>>, <<>>))

\* Lines 152-170.
IdListOps(net, rec, out, fs, zr) ==
    LET id_list_ranges == NextScopedBlob(net, "id_list_ranges")
        n0 == [net EXCEPT !.registered = net.registered \cup {id_list_ranges}]
        n1 == Emit(n0, Op("LengthsToRanges", <<rec["values:lengths"]>>,
                          <<id_list_ranges>>, <<>>))
        n2 == Emit(n1, Op("SparseToDenseMask",
                          <<rec["keys"], id_list_ranges, zr, rec["lengths"]>>,
                          <<out.scalars[1].blob>>,
                          << <<"mask", fs.feature_ids>> >>))
    IN Emit(n2, Op("Alias", <<rec["values:items"]>>, <<out.scalars[2].blob>>, <<>>))

\* Variant of IdScoreListOps: 'scores' is left without its Alias.
IdScoreListOpsOneAlias(net, rec, out, fs, zr) ==
    LET id_list_ranges == NextScopedBlob(net, "id_score_list_ranges")
        n0 == [net EXCEPT !.registered = net.registered \cup {id_list_ranges}]
        n1 == Emit(n0, Op("LengthsToRanges", <<rec["values:lengths"]>>,
                          <<id_list_ranges>>, <<>>))
        n2 == Emit(n1, Op("SparseToDenseMask",
                          <<rec["keys"], id_list_ranges, zr, rec["lengths"]>>,
                          <<out.scalars[1].blob>>,
                          << <<"mask", fs.feature_ids>> >>))
    IN Emit(n2, Op("Alias", <<rec["values:keys"]>>, <<out.scalars[2].blob>>, <<>>))

\* Lines 173-193.
IdScoreListOps(net, rec, out, fs, zr) ==
    LET id_list_ranges == NextScopedBlob(net, "id_score_list_ranges")
        n0 == [net EXCEPT !.registered = net.registered \cup {id_list_ranges}]
        n1 == Emit(n0, Op("LengthsToRanges", <<rec["values:lengths"]>>,
                          <<id_list_ranges>>, <<>>))
        n2 == Emit(n1, Op("SparseToDenseMask",
                          <<rec["keys"], id_list_ranges, zr, rec["lengths"]>>,
                          <<out.scalars[1].blob>>,
                          << <<"mask", fs.feature_ids>> >>))
        n3 == Emit(n2, Op("Alias", <<rec["values:keys"]>>, <<out.scalars[2].blob>>, <<>>))
    IN Emit(n3, Op("Alias", <<rec["values:values"]>>, <<out.scalars[3].blob>>, <<>>))

\* Variant of GroupOps: the dispatch knows only the tags of _known_types.
GroupOpsKnownTypesOnly(net, rec, out, fs, z, zr) ==
    IF fs.feature_type = "FLOAT" THEN FloatOps(net, rec, out, fs, z)
    ELSE IF fs.feature_type = "ID_LIST" THEN IdListOps(net, rec, out, fs, zr)
    ELSE net

\* One pass of the loop body, lines 138-193: the dispatch on the type tag; a
\* tag that matches no branch emits nothing.
GroupOps(net, rec, out, fs, z, zr) ==
    IF fs.feature_type = "FLOAT" THEN FloatOps(net, rec, out, fs, z)
    ELSE IF fs.feature_type = "ID_LIST" THEN IdListOps(net, rec, out, fs, zr)
    ELSE IF fs.feature_type = "ID_SCORE_LIST" THEN IdScoreListOps(net, rec, out, fs, zr)
    ELSE net

\* The loop of lines 137-193 from group i on.
RECURSIVE add_ops(_, _, _, _, _, _, _)
add_ops(net, specs, i, record, fields, z, zr) ==
    IF i > Len(specs) THEN net
    ELSE add_ops(GroupOps(net, record[specs[i].field], Field(fields, specs[i].field),
                          specs[i].feature_specs, z, zr),
                 specs, i + 1, record, fields, z, zr)

\* The number of add_ops calls made so far, on all nets.
RECURSIVE SumCalls(_)
SumCalls(ns) ==
    IF ns = {} THEN 0 ELSE LET n == CHOOSE m \in ns : TRUE IN calls[n] + SumCalls(ns \ {n})

TotalCalls == SumCalls(NetIds)

AddOps(n) ==
    /\ status = "constructed"
    /\ TotalCalls < MaxCalls
    /\ nets' = [nets EXCEPT ![n] = add_ops(nets[n], input_specs, 1, input_record,
                                           output_schema.fields, zero[1], zero_range[1])]
    /\ calls' = [calls EXCEPT ![n] = calls[n] + 1]
    /\ UNCHANGED <<input_specs, input_record, registered, status, raised,
                   output_schema, zero, zero_range, metadata_returns>>

(* ---------------------------- get_metadata ---------------------------- *)

field_blobs(out) == [j \in 1..Len(out.scalars) |-> out.scalars[j].blob]

field_types(out) ==
    [j \in 1..Len(out.scalars) |->
        [dtype |-> out.scalars[j].dtype, shape |-> out.scalars[j].shape]]

\* Variant of MetadataEntry: 'cardinality' is set for every type.
MetadataEntryAlwaysCardinality(fs, out) ==
    [info |-> [type |-> fs.feature_type, names |-> fs.feature_names,
               ids |-> fs.feature_ids, cardinality |-> 1],
     blobs |-> field_blobs(out),
     types |-> field_types(out)]

\* Lines 198-210 for one group.
MetadataEntry(fs, out) ==
    LET info == [type |-> fs.feature_type, names |-> fs.feature_names, ids |-> fs.feature_ids]
    IN [info |-> IF fs.feature_type = "FLOAT"
                 THEN [type |-> info.type, names |-> info.names, ids |-> info.ids,
                       cardinality |-> 1]
                 ELSE info,
        blobs |-> field_blobs(out),
        types |-> field_types(out)]

get_metadata(specs, fields) ==
    [i \in 1..Len(specs) |->
        MetadataEntry(specs[i].feature_specs, Field(fields, specs[i].field))]

GetMetadata ==
    /\ status = "constructed"
    /\ Len(metadata_returns) < MaxMetadataCalls
    /\ metadata_returns' = Append(metadata_returns,
                                  get_metadata(input_specs, output_schema.fields))
    /\ UNCHANGED <<input_specs, input_record, registered, status, raised,
                   output_schema, zero, zero_range, nets, calls>>

Next ==
    \/ Construct
    \/ \E n \in NetIds : AddOps(n)
    \/ GetMetadata

Spec == Init /\ [][Next]_vars

(* ------------------------------ the claims ---------------------------- *)

Groups == 1..Len(input_specs)

SpecOf(i) == input_specs[i].feature_specs

LengthsAgree(i) == Len(SpecOf(i).feature_names) = Len(SpecOf(i).feature_ids)

UnknownGroups == {i \in Groups : SpecOf(i).feature_type \notin {"FLOAT", "ID_LIST", "ID_SCORE_LIST"}}

FirstUnknown == CHOOSE i \in UnknownGroups : \A j \in UnknownGroups : i <= j

MismatchGroups == {i \in Groups : ~LengthsAgree(i)}

FirstMismatch == CHOOSE i \in MismatchGroups : \A j \in MismatchGroups : i <= j

\* The constructor left no output_schema, no metadata, no constants and no operator.
NothingBuilt ==
    /\ ~output_schema.set
    /\ output_schema.fields = <<>>
    /\ zero = <<>>
    /\ zero_range = <<>>
    /\ \A n \in NetIds : nets[n] = InitialNet(n)
    /\ metadata_returns = <<>>

\* C1 as stated: when some group has an unknown type tag and all groups before
\* the first such group pass the length check, the constructor raises TypeError
\* and builds nothing.
C1_TypeErrorAtFirstUnknown ==
    (status # "new" /\ UnknownGroups # {} /\ \A j \in 1..(FirstUnknown - 1) : LengthsAgree(j))
        => (status = "raised" /\ raised = "TypeError" /\ NothingBuilt)

\* C1 amended: input_specs with an unknown type tag is always rejected and
\* nothing is built; the exception is TypeError when all groups up to and
\* including the first unknown one pass the length check.
C1_UnknownTagRejected ==
    (status # "new" /\ UnknownGroups # {})
        => /\ status = "raised"
           /\ NothingBuilt
           /\ (\A j \in 1..FirstUnknown : LengthsAgree(j)) => raised = "TypeError"

C1_Witness ==
    /\ status = "raised"
    /\ raised = "TypeError"
    /\ UnknownGroups # {}
    /\ FirstUnknown > 1

\* C2: a constructed layer has names and ids of equal length in every group;
\* the lengths are compared group by group in input_specs order and before the
\* type tag is examined, so the first group with unequal lengths ends the
\* construction with AssertionError when no earlier group has an unknown tag,
\* whatever its own tag is.
C2_LengthsAgree ==
    /\ status = "constructed" => \A i \in Groups : LengthsAgree(i)
    /\ (status # "new" /\ MismatchGroups # {}) => status = "raised"
    /\ (status # "new" /\ MismatchGroups # {}
           /\ \A j \in UnknownGroups : j >= FirstMismatch)
          => raised = "AssertionError"

C2_Witness ==
    /\ status = "raised"
    /\ raised = "AssertionError"
    /\ MismatchGroups # {}
    /\ FirstMismatch \in UnknownGroups
    /\ FirstMismatch > 1

\* What the field declared for a group of tag t with n ids must look like.
DeclaredAs(t, n, out) ==
    LET sc == out.scalars
        Is(j, name, dtype, shape) ==
            sc[j].name = name /\ sc[j].dtype = dtype /\ sc[j].shape = shape
    IN IF t = "FLOAT"
       THEN out.kind = "Scalar" /\ Len(sc) = 1 /\ Is(1, "", "float32", <<n>>)
       ELSE IF t = "ID_LIST"
       THEN /\ out.kind = "Struct" /\ Len(sc) = 2
            /\ Is(1, "ranges", "int32", <<n, 2>>)
            /\ Is(2, "values", "int64", <<>>)
       ELSE /\ t = "ID_SCORE_LIST"
            /\ out.kind = "Struct" /\ Len(sc) = 3
            /\ Is(1, "ranges", "int32", <<n, 2>>)
            /\ Is(2, "ids", "int64", <<>>)
            /\ Is(3, "scores", "float32", <<>>)

\* C3: after construction output_schema has one field per group, under the
\* group's field name and in input_specs order, shaped by the type tag and
\* n = len(feature_ids) alone.
C3_OutputSchemaShape ==
    status = "constructed"
        => /\ output_schema.set
           /\ Len(output_schema.fields) = Len(input_specs)
           /\ \A i \in Groups :
                 /\ output_schema.fields[i].field = input_specs[i].field
                 /\ DeclaredAs(SpecOf(i).feature_type, Len(SpecOf(i).feature_ids),
                               output_schema.fields[i])

C3_Witness ==
    /\ status = "constructed"
    /\ Len(input_specs) = 2
    /\ SpecOf(1).feature_type = "ID_SCORE_LIST"
    /\ SpecOf(2).feature_type = "FLOAT"
    /\ input_specs[1].field = "b"
    /\ Len(SpecOf(1).feature_ids) = 2

\* C4 as stated: when every group carries a known type tag the constructor
\* completes, whatever the names and ids lists are.
C4_KnownTagsAlwaysConstruct ==
    (status # "new" /\ UnknownGroups = {}) => (status = "constructed" /\ raised = "")

\* C4 amended: when every group carries a known type tag and has names and ids
\* of equal length the constructor completes; it raises only for an unknown tag
\* (TypeError) or for lists of different length (AssertionError).
C4_FailureModes ==
    /\ (status # "new" /\ UnknownGroups = {} /\ MismatchGroups = {})
          => (status = "constructed" /\ raised = "")
    /\ raised = "TypeError" => UnknownGroups # {}
    /\ raised = "AssertionError" => MismatchGroups # {}
    /\ raised \in {"", "TypeError", "AssertionError"}

C4_Witness ==
    /\ status = "constructed"
    /\ Len(input_specs) = 2
    /\ SpecOf(1).feature_type = "ID_SCORE_LIST"
    /\ SpecOf(2).feature_type = "ID_LIST"

\* The operators that the add_ops calls made so far appended to net n.
Emitted(n) == SubSeq(nets[n].ops, Len(InitialNet(n).ops) + 1, Len(nets[n].ops))

Kinds(ops) == [k \in 1..Len(ops) |-> ops[k].type]

KindsOfTag(t) ==
    IF t = "FLOAT" THEN <<"SparseToDenseMask">>
    ELSE IF t = "ID_LIST" THEN <<"LengthsToRanges", "SparseToDenseMask", "Alias">>
    ELSE <<"LengthsToRanges", "SparseToDenseMask", "Alias", "Alias">>

\* The kinds one call emits for the groups i, i+1, ...
RECURSIVE KindsFrom(_)
KindsFrom(i) ==
    IF i > Len(input_specs) THEN <<>>
    ELSE KindsOfTag(SpecOf(i).feature_type) \o KindsFrom(i + 1)

RECURSIVE Repeat(_, _)
Repeat(seq, c) == IF c = 0 THEN <<>> ELSE seq \o Repeat(seq, c - 1)

\* The number of operators one call emits for the groups before group i.
RECURSIVE Offset(_)
Offset(i) == IF i = 1 THEN 0 ELSE Offset(i - 1) + Len(KindsOfTag(SpecOf(i - 1).feature_type))

\* C5 as stated: one call of add_ops emits three operators per group, one
\* LengthsToRanges, one SparseToDenseMask and one Alias, whatever the type.
C5_ThreeOpsPerGroup ==
    \A n \in NetIds : calls[n] = 1 =>
        /\ Len(Emitted(n)) = 3 * Len(input_specs)
        /\ \A i \in Groups :
              {Emitted(n)[3 * (i - 1) + j].type : j \in 1..3}
                  = {"LengthsToRanges", "SparseToDenseMask", "Alias"}

\* C5 amended: add_ops emits operators of the three kinds only; per call a
\* FLOAT group gets one SparseToDenseMask, an ID_LIST group LengthsToRanges,
\* SparseToDenseMask, Alias, and an ID_SCORE_LIST group LengthsToRanges,
\* SparseToDenseMask, Alias, Alias.
C5_OpsPerType ==
    \A n \in NetIds :
        /\ Kinds(Emitted(n)) = Repeat(KindsFrom(1), calls[n])
        /\ \A k \in 1..Len(Emitted(n)) :
              Emitted(n)[k].type \in {"LengthsToRanges", "SparseToDenseMask", "Alias"}

C5_Witness ==
    \E n \in NetIds :
        /\ calls[n] = 1
        /\ Len(input_specs) = 2
        /\ SpecOf(1).feature_type = "FLOAT"
        /\ SpecOf(2).feature_type = "ID_SCORE_LIST"
        /\ Len(Emitted(n)) = 5

\* One value get_metadata may return, checked entry by entry.
MetadataAsDocumented(r) ==
    /\ Len(r) = Len(input_specs)
    /\ \A i \in Groups :
          LET out == output_schema.fields[i]
          IN /\ r[i].info.type = SpecOf(i).feature_type
             /\ r[i].info.names = SpecOf(i).feature_names
             /\ r[i].info.ids = SpecOf(i).feature_ids
             /\ ("cardinality" \in DOMAIN r[i].info) <=> (SpecOf(i).feature_type = "FLOAT")
             /\ DOMAIN r[i].info \subseteq {"type", "names", "ids", "cardinality"}
             /\ ("cardinality" \in DOMAIN r[i].info) => r[i].info.cardinality = 1
             /\ Len(r[i].blobs) = Len(out.scalars)
             /\ Len(r[i].types) = Len(out.scalars)
             /\ \A j \in 1..Len(out.scalars) :
                   /\ r[i].blobs[j] = out.scalars[j].blob
                   /\ r[i].types[j].dtype = out.scalars[j].dtype
                   /\ r[i].types[j].shape = out.scalars[j].shape

\* C6: every value get_metadata returns has one entry per group, in
\* input_specs order, with the group's type, names and ids, the blobs and types
\* of its output field, and 'cardinality' (= 1) exactly for FLOAT; all the
\* values returned are equal, whatever was called in between.
C6_Metadata ==
    /\ \A c \in 1..Len(metadata_returns) : MetadataAsDocumented(metadata_returns[c])
    /\ \A c, d \in 1..Len(metadata_returns) : metadata_returns[c] = metadata_returns[d]

C6_Witness ==
    /\ Len(metadata_returns) = 2
    /\ Len(input_specs) = 2
    /\ SpecOf(1).feature_type = "ID_LIST"
    /\ SpecOf(2).feature_type = "FLOAT"
    /\ \E n \in NetIds : calls[n] = 1

Blob(i, j) == output_schema.fields[i].scalars[j].blob

In(i, path) == input_record[input_specs[i].field][path]

\* The blobs read or written by the operators of net n before position k.
Touched(n, k) ==
    UNION { {nets[n].ops[m].inputs[x] : x \in 1..Len(nets[n].ops[m].inputs)} \cup
            {nets[n].ops[m].outputs[x] : x \in 1..Len(nets[n].ops[m].outputs)} :
            m \in 1..(k - 1) }

\* The operators of one call for group i, at positions p+1.. of net n's operators.
GroupEmittedInOrder(n, i, p) ==
    LET ops == nets[n].ops
        t == SpecOf(i).feature_type
    IN IF t = "FLOAT"
       THEN /\ ops[p + 1].type = "SparseToDenseMask"
            /\ ops[p + 1].inputs = <<In(i, "keys"), In(i, "values"), "ZERO", In(i, "lengths")>>
            /\ ops[p + 1].outputs = <<Blob(i, 1)>>
       ELSE /\ ops[p + 1].type = "LengthsToRanges"
            /\ ops[p + 1].inputs = <<In(i, "values:lengths")>>
            /\ Len(ops[p + 1].outputs) = 1
            /\ ops[p + 1].outputs[1] \notin Touched(n, p + 1)
            /\ ops[p + 2].type = "SparseToDenseMask"
            /\ ops[p + 2].inputs = <<In(i, "keys"), ops[p + 1].outputs[1], "ZERO_RANGE",
                                     In(i, "lengths")>>
            /\ ops[p + 2].outputs = <<Blob(i, 1)>>
            /\ IF t = "ID_LIST"
               THEN /\ ops[p + 3].type = "Alias"
                    /\ ops[p + 3].inputs = <<In(i, "values:items")>>
                    /\ ops[p + 3].outputs = <<Blob(i, 2)>>
               ELSE /\ ops[p + 3].type = "Alias"
                    /\ ops[p + 3].inputs = <<In(i, "values:keys")>>
                    /\ ops[p + 3].outputs = <<Blob(i, 2)>>
                    /\ ops[p + 4].type = "Alias"
                    /\ ops[p + 4].inputs = <<In(i, "values:values")>>
                    /\ ops[p + 4].outputs = <<Blob(i, 3)>>

\* The blobs that LengthsToRanges operators of net n write.
Intermediates(n) ==
    {nets[n].ops[k].outputs[1] : k \in {m \in 1..Len(nets[n].ops) : nets[n].ops[m].type = "LengthsToRanges"}}

\* C7: a call of add_ops emits the groups' operators in input_specs order, and
\* for a list group LengthsToRanges into a fresh blob first, then the
\* SparseToDenseMask that reads it (default ZERO_RANGE) and writes 'ranges',
\* then the Alias call(s); a FLOAT group gets one SparseToDenseMask with
\* default ZERO; no operator reads an intermediate blob before its writer.
C7_DataflowOrder ==
    \A n \in NetIds :
        /\ Len(Emitted(n)) = calls[n] * Len(KindsFrom(1))
        /\ \A c \in 1..calls[n] : \A i \in Groups :
              GroupEmittedInOrder(n, i, Len(InitialNet(n).ops) + (c - 1) * Len(KindsFrom(1))
                                            + Offset(i))
        /\ \A k \in 1..Len(nets[n].ops) : \A x \in 1..Len(nets[n].ops[k].inputs) :
              nets[n].ops[k].inputs[x] \in Intermediates(n)
                  => \E m \in 1..(k - 1) : nets[n].ops[k].inputs[x] = nets[n].ops[m].outputs[1]

C7_Witness ==
    /\ calls["predict_net"] = 1
    /\ Len(input_specs) = 2
    /\ SpecOf(1).feature_type = "ID_LIST"
    /\ SpecOf(2).feature_type = "ID_SCORE_LIST"
    /\ input_specs[1].field = "b"
    /\ Len(Emitted("predict_net")) = 7

ScalarIndex == { <<i, j>> \in Groups \X (1..3) : j <= Len(output_schema.fields[i].scalars) }

OutputBlobs == { Blob(ij[1], ij[2]) : ij \in ScalarIndex }

Writers(n, b) ==
    {k \in 1..Len(Emitted(n)) :
        \E x \in 1..Len(Emitted(n)[k].outputs) : Emitted(n)[k].outputs[x] = b}

C10_MaskMatchesShape ==
    status = "constructed" =>
        \A n \in NetIds :
            /\ \A k \in 1..Len(Emitted(n)) :
                  LET op == Emitted(n)[k]
                  IN op.type = "SparseToDenseMask" =>
                        \E i \in Groups :
                            /\ op.outputs = <<Blob(i, 1)>>
                            /\ op.args = << <<"mask", SpecOf(i).feature_ids>> >>
                            /\ Len(op.args[1][2]) = output_schema.fields[i].scalars[1].shape[1]
            /\ calls[n] >= 1 =>
                  \A i \in Groups : \E k \in 1..Len(Emitted(n)) :
                      /\ Emitted(n)[k].type = "SparseToDenseMask"
                      /\ Emitted(n)[k].outputs = <<Blob(i, 1)>>

C10_Witness ==
    /\ status = "constructed"
    /\ \E n \in NetIds : calls[n] = 1
    /\ \E i \in Groups : SpecOf(i).feature_type = "FLOAT" /\ SpecOf(i).feature_ids = <<8, 5>>
    /\ \E i \in Groups : SpecOf(i).feature_type = "ID_LIST" /\ Len(SpecOf(i).feature_ids) = 1
====
